---- MODULE Spec2Model ----
(***************************************************************************)
(* The Fiat-Shamir sigma protocol of src/src/lib.rs: prove and verify over *)
(* a group of prime order Q (ark_ec::Group is "a group of prime order r"). *)
(* A group element is written as its discrete logarithm to a fixed         *)
(* generator, so the group law is addition modulo Q and a scalar           *)
(* multiplication is a multiplication modulo Q.                            *)
(***************************************************************************)
EXTENDS Integers, Sequences, FiniteSets, TLC

\* The order of the group, and of its scalar field (C::ScalarField).
Q == 5
\* Bytes of one compressed group element (model bound).
EncLen == 2
\* Bytes squeezed from the hash.
DigestLen == 32
\* Outputs the randomness source can give (model bound).
StreamLen == 4
\* prove calls one caller makes (model bound).
MaxCalls == 3

Scalars == 0 .. (Q - 1)
Group == 0 .. (Q - 1)
Identity == 0
Generator == 1

\* Group addition, scalar multiplication, and the field operations.
Add(P, R) == (P + R) % Q
Mul(P, x) == (P * x) % Q
FAdd(x, y) == (x + y) % Q
FMul(x, y) == (x * y) % Q

RECURSIVE Pow(_, _)
Pow(b, n) == IF n = 0 THEN 1 ELSE b * Pow(b, n - 1)

\* The canonical compressed encoding of a group element: fixed width,
\* little-endian bytes.
Encode(P) == [i \in 1 .. EncLen |-> (P \div Pow(256, i - 1)) % 256]

\* A provider is the set of group elements its serialize_compressed can
\* encode; the conforming provider encodes every element.
Conforming == Group
Providers == {Group} \cup {Group \ {x} : x \in Group}

\* CanonicalSerialize::serialize_compressed into a fresh Vec.
Serialize(P, enc) ==
    IF P \in enc THEN [ok |-> TRUE, bytes |-> Encode(P)]
    ELSE [ok |-> FALSE, bytes |-> <<>>]

\* Ciphertext::serialize_compressed: c1 first, then c2, each with `?`.
CiphertextSerialize(c1, c2, enc) ==
    LET b1 == Serialize(c1, enc)
        b2 == Serialize(c2, enc)
    IN IF ~b1.ok THEN [ok |-> FALSE, c1_bytes |-> <<>>, c2_bytes |-> <<>>]
       ELSE IF ~b2.ok THEN [ok |-> FALSE, c1_bytes |-> <<>>, c2_bytes |-> <<>>]
       ELSE [ok |-> TRUE, c1_bytes |-> b1.bytes, c2_bytes |-> b2.bytes]

\* The extendable-output hash: absorb every byte of every item in order,
\* then squeeze DigestLen bytes. The permutation is a small stand-in for
\* Keccak's; the interface (update item by item, read 32 bytes) is the code's.
RECURSIVE Absorb(_, _)
Absorb(st, bytes) ==
    IF bytes = <<>> THEN st
    ELSE Absorb((st * 167 + Head(bytes) + 1) % 4093, Tail(bytes))

RECURSIVE Update(_, _)
Update(st, items) ==
    IF items = <<>> THEN st
    ELSE Update(Absorb(st, Head(items)), Tail(items))

RECURSIVE Squeeze(_, _)
Squeeze(st, n) ==
    IF n = 0 THEN <<>>
    ELSE LET nx == (st * 167 + 11) % 4093
         IN <<nx % 256>> \o Squeeze(nx, n - 1)

shake128(input) == Squeeze(Update(7, input), DigestLen)

\* PrimeField::from_be_bytes_mod_order: the big-endian integer, reduced.
RECURSIVE BeMod(_, _)
BeMod(acc, bytes) ==
    IF bytes = <<>> THEN acc
    ELSE BeMod((acc * 256 + Head(bytes)) % Q, Tail(bytes))

FromBeBytesModOrder(bytes) == BeMod(0, bytes)

\* The inputs vector of prove and verify: four encodings, in push order.
Transcripts ==
    {<<Encode(t), Encode(a), Encode(c1), Encode(c2)>> :
        t \in Group, a \in Group, c1 \in Group, c2 \in Group}

\* from_be_bytes_mod_order(&shake128(inputs)), tabulated over the inputs.
ChallengeTable ==
    [inputs \in Transcripts |-> FromBeBytesModOrder(shake128(inputs))]

HashToScalar(inputs) == ChallengeTable[inputs]

\* UniformRand::rand on a deterministic generator: the generator's state is
\* its output stream and the position reached in it.
Rand(rng) ==
    [value |-> rng.stream[rng.pos + 1], rng |-> [rng EXCEPT !.pos = @ + 1]]


\* The challenge of a transcript (t, a, c1, c2): the four encodings absorbed
\* in that order, the digest reduced into the scalar field.
TranscriptChallenge(t, a, c1, c2) ==
    HashToScalar(<<Encode(t), Encode(a), Encode(c1), Encode(c2)>>)

\* prove with the response computed as k*e + s.
ProveResponseSwapped(secret, params, rng0, enc) ==
    LET d1 == Rand(rng0)
        r == d1.value
        c1 == Mul(params.g, r)
        c2 == Mul(params.h, FMul(secret, r))
        c == Add(Mul(params.g, secret), Mul(params.h, secret))
        d2 == Rand(d1.rng)
        k == d2.value
        t == Mul(params.g, k)
        a == Mul(params.h, k)
        challenge == TranscriptChallenge(t, a, c1, c2)
        z == FAdd(FMul(k, challenge), secret)
    IN IF {t, a, c1, c2} \subseteq enc
       THEN [status |-> "ok", c |-> c, c1 |-> c1, c2 |-> c2,
             t |-> t, a |-> a, z |-> z,
             challenge |-> challenge, r |-> r, k |-> k, rng |-> d2.rng]
       ELSE [status |-> "panic", rng |-> d2.rng]

\* prove with the ciphertext in the canonical ElGamal shape, c2 = h*r + g*s.
ProveCanonicalElGamal(secret, params, rng0, enc) ==
    LET d1 == Rand(rng0)
        r == d1.value
        c1 == Mul(params.g, r)
        c2 == Add(Mul(params.h, r), Mul(params.g, secret))
        c == Add(Mul(params.g, secret), Mul(params.h, secret))
        d2 == Rand(d1.rng)
        k == d2.value
        t == Mul(params.g, k)
        a == Mul(params.h, k)
        challenge == TranscriptChallenge(t, a, c1, c2)
        z == FAdd(k, FMul(challenge, secret))
    IN IF {t, a, c1, c2} \subseteq enc
       THEN [status |-> "ok", c |-> c, c1 |-> c1, c2 |-> c2,
             t |-> t, a |-> a, z |-> z,
             challenge |-> challenge, r |-> r, k |-> k, rng |-> d2.rng]
       ELSE [status |-> "panic", rng |-> d2.rng]

\* prove with the nonce k taken from the draw that gave r.
ProveOneDraw(secret, params, rng0, enc) ==
    LET d1 == Rand(rng0)
        r == d1.value
        c1 == Mul(params.g, r)
        c2 == Mul(params.h, FMul(secret, r))
        c == Add(Mul(params.g, secret), Mul(params.h, secret))
        k == d1.value
        t == Mul(params.g, k)
        a == Mul(params.h, k)
        challenge == TranscriptChallenge(t, a, c1, c2)
        z == FAdd(k, FMul(challenge, secret))
    IN IF {t, a, c1, c2} \subseteq enc
       THEN [status |-> "ok", c |-> c, c1 |-> c1, c2 |-> c2,
             t |-> t, a |-> a, z |-> z,
             challenge |-> challenge, r |-> r, k |-> k, rng |-> d1.rng]
       ELSE [status |-> "panic", rng |-> d1.rng]

\* ElGamalSigmaProtocol::prove. The result carries, beside the returned
\* (commitment, ciphertext, proof), the scalars drawn (r, k), the challenge
\* derived, and the randomness source as the call leaves it.
Prove(secret, params, rng0, enc) ==
    LET d1 == Rand(rng0)
        r == d1.value
        c1 == Mul(params.g, r)
        c2 == Mul(params.h, FMul(secret, r))
        c == Add(Mul(params.g, secret), Mul(params.h, secret))
        d2 == Rand(d1.rng)
        k == d2.value
        t == Mul(params.g, k)
        a == Mul(params.h, k)
        t_bytes == Serialize(t, enc)
        a_bytes == Serialize(a, enc)
        ct_bytes == CiphertextSerialize(c1, c2, enc)
    IN IF t_bytes.ok /\ a_bytes.ok /\ ct_bytes.ok
       THEN LET inputs == <<t_bytes.bytes, a_bytes.bytes,
                            ct_bytes.c1_bytes, ct_bytes.c2_bytes>>
                challenge == HashToScalar(inputs)
                z == FAdd(k, FMul(challenge, secret))
            IN [status |-> "ok", c |-> c, c1 |-> c1, c2 |-> c2,
                t |-> t, a |-> a, z |-> z,
                challenge |-> challenge, r |-> r, k |-> k, rng |-> d2.rng]
       ELSE [status |-> "panic", rng |-> d2.rng]

\* verify absorbing a before t.
VerifyAbsorbOrder(commitment, ciphertext, proof, params, enc) ==
    LET challenge == TranscriptChallenge(proof.a, proof.t, ciphertext.c1, ciphertext.c2)
        zg == Mul(params.g, proof.z)
        zh == Mul(params.h, proof.z)
    IN IF {proof.t, proof.a, ciphertext.c1, ciphertext.c2} \subseteq enc
       THEN [status |-> "ok",
             result |-> (Add(zg, zh) =
                         Add(Add(proof.t, proof.a), Mul(commitment, challenge))),
             challenge |-> challenge, enc |-> enc]
       ELSE [status |-> "panic", enc |-> enc]

\* verify adding the commitment without scaling it by the challenge.
VerifyUnscaledCommitment(commitment, ciphertext, proof, params, enc) ==
    LET challenge == TranscriptChallenge(proof.t, proof.a, ciphertext.c1, ciphertext.c2)
        zg == Mul(params.g, proof.z)
        zh == Mul(params.h, proof.z)
    IN IF {proof.t, proof.a, ciphertext.c1, ciphertext.c2} \subseteq enc
       THEN [status |-> "ok",
             result |-> (Add(zg, zh) = Add(Add(proof.t, proof.a), commitment)),
             challenge |-> challenge, enc |-> enc]
       ELSE [status |-> "panic", enc |-> enc]

\* verify comparing only the g side: g*z against t + commitment*e.
VerifyOneBase(commitment, ciphertext, proof, params, enc) ==
    LET challenge == TranscriptChallenge(proof.t, proof.a, ciphertext.c1, ciphertext.c2)
        zg == Mul(params.g, proof.z)
    IN IF {proof.t, proof.a, ciphertext.c1, ciphertext.c2} \subseteq enc
       THEN [status |-> "ok",
             result |-> (zg = Add(proof.t, Mul(commitment, challenge))),
             challenge |-> challenge, enc |-> enc]
       ELSE [status |-> "panic", enc |-> enc]

\* verify ignoring proof.a on the right-hand side.
VerifyDropsA(commitment, ciphertext, proof, params, enc) ==
    LET challenge == TranscriptChallenge(proof.t, proof.a, ciphertext.c1, ciphertext.c2)
        zg == Mul(params.g, proof.z)
        zh == Mul(params.h, proof.z)
    IN IF {proof.t, proof.a, ciphertext.c1, ciphertext.c2} \subseteq enc
       THEN [status |-> "ok",
             result |-> (Add(zg, zh) = Add(proof.t, Mul(commitment, challenge))),
             challenge |-> challenge, enc |-> enc]
       ELSE [status |-> "panic", enc |-> enc]

\* verify answering false, instead of panicking, when an encoding fails.
VerifyFalseOnError(commitment, ciphertext, proof, params, enc) ==
    LET challenge == TranscriptChallenge(proof.t, proof.a, ciphertext.c1, ciphertext.c2)
        zg == Mul(params.g, proof.z)
        zh == Mul(params.h, proof.z)
    IN IF {proof.t, proof.a, ciphertext.c1, ciphertext.c2} \subseteq enc
       THEN [status |-> "ok",
             result |-> (Add(zg, zh) =
                         Add(Add(proof.t, proof.a), Mul(commitment, challenge))),
             challenge |-> challenge, enc |-> enc]
       ELSE [status |-> "ok", result |-> FALSE, challenge |-> 0, enc |-> enc]

\* ElGamalSigmaProtocol::verify. The result carries the boolean returned and
\* the challenge derived; a failed encoding is the panic of expect().
Verify(commitment, ciphertext, proof, params, enc) ==
    LET t_bytes == Serialize(proof.t, enc)
        a_bytes == Serialize(proof.a, enc)
        ct_bytes == CiphertextSerialize(ciphertext.c1, ciphertext.c2, enc)
    IN IF t_bytes.ok /\ a_bytes.ok /\ ct_bytes.ok
       THEN LET inputs == <<t_bytes.bytes, a_bytes.bytes,
                            ct_bytes.c1_bytes, ct_bytes.c2_bytes>>
                challenge == HashToScalar(inputs)
                zg == Mul(params.g, proof.z)
                zh == Mul(params.h, proof.z)
            IN [status |-> "ok",
                result |-> (Add(zg, zh) =
                            Add(Add(proof.t, proof.a), Mul(commitment, challenge))),
                challenge |-> challenge, enc |-> enc]
       ELSE [status |-> "panic", enc |-> enc]

VARIABLES
    s,        \* the secret scalar given to prove
    g, h,     \* the two bases of Params
    stream,   \* the output stream of the randomness source
    pos,      \* the position the caller's randomness source has reached
    pout,     \* what prove returned
    vin,      \* the arguments assembled for verify
    how,      \* how vin was assembled from prove's output
    vout,     \* what verify returned
    pc,       \* the caller's position
    calls     \* the prove calls made on the randomness source, in order

vars == <<s, g, h, stream, pos, pout, vin, how, vout, pc, calls>>

NoOutput == [status |-> "none"]
NoInput == [status |-> "none"]
NotYet == [kind |-> "none", x |-> 0]

\* The caller of the tests: a secret, two bases, a randomness source.
Init ==
    /\ s \in Scalars
    /\ g \in Group
    /\ h \in Group
    /\ stream \in [1 .. 2 -> Scalars]
    /\ pos = 0
    /\ pout = NoOutput
    /\ vin = NoInput
    /\ how = NotYet
    /\ vout = NoOutput
    /\ pc = "start"
    /\ calls = <<>>

\* prove(s, Params{g, h}, rng) on a provider that encodes `enc`.
ProveWith(enc) ==
    /\ pc = "start"
    /\ \E res \in {Prove(s, [g |-> g, h |-> h], [stream |-> stream, pos |-> pos], enc)} :
          /\ pout' = [x \in DOMAIN res \ {"rng"} |-> res[x]]
          /\ pos' = res.rng.pos
          /\ pc' = IF res.status = "ok" THEN "proved" ELSE "panicked"
    /\ UNCHANGED <<s, g, h, stream, vin, how, vout, calls>>

ProveCall == ProveWith(Conforming)

ProveCallSer == \E enc \in Providers : ProveWith(enc)

Returned ==
    [status |-> "ok", commitment |-> pout.c, c1 |-> pout.c1, c2 |-> pout.c2,
     t |-> pout.t, a |-> pout.a, z |-> pout.z, g |-> g, h |-> h]

Assemble(input, kind, x) ==
    /\ pc = "proved"
    /\ vin' = input
    /\ how' = [kind |-> kind, x |-> x]
    /\ pc' = "assembled"
    /\ UNCHANGED <<s, g, h, stream, pos, pout, vout, calls>>

\* prove_and_verify: prove's output, unmodified.
UseHonest == Assemble(Returned, "honest", 0)

\* pok.z := pok.z + 1.
AlterResponse ==
    Assemble([Returned EXCEPT !.z = FAdd(@, 1)], "altered_response", 0)

\* The commitment computed for another secret.
BadCommitment ==
    \E s2 \in Scalars \ {s} :
        Assemble([Returned EXCEPT !.commitment = Add(Mul(g, s2), Mul(h, s2))],
                 "bad_commitment", s2)

\* verify_fails_with_invalid_proof: PoK{t: g*j, a: g*j, z: j}.
BadProof ==
    \E j \in Scalars :
        Assemble([Returned EXCEPT !.t = Mul(g, j), !.a = Mul(g, j), !.z = j],
                 "bad_proof", j)

\* One of the four hashed values replaced by another group element.
ChangeT ==
    /\ pc = "proved"
    /\ \E P \in Group \ {pout.t} :
           Assemble([Returned EXCEPT !.t = P], "changed_t", P)

ChangeA ==
    /\ pc = "proved"
    /\ \E P \in Group \ {pout.a} :
           Assemble([Returned EXCEPT !.a = P], "changed_a", P)

ChangeC1 ==
    /\ pc = "proved"
    /\ \E P \in Group \ {pout.c1} :
           Assemble([Returned EXCEPT !.c1 = P], "changed_c1", P)

ChangeC2 ==
    /\ pc = "proved"
    /\ \E P \in Group \ {pout.c2} :
           Assemble([Returned EXCEPT !.c2 = P], "changed_c2", P)

\* verify(commitment, ciphertext, proof, params) on a provider that encodes `enc`.
VerifyWith(enc) ==
    /\ pc = "assembled"
    /\ vout' = Verify(vin.commitment, [c1 |-> vin.c1, c2 |-> vin.c2],
                      [t |-> vin.t, a |-> vin.a, z |-> vin.z],
                      [g |-> vin.g, h |-> vin.h], enc)
    /\ pc' = "verified"
    /\ UNCHANGED <<s, g, h, stream, pos, pout, vin, how, calls>>

VerifyCall == VerifyWith(Conforming)

VerifyCallSer == \E enc \in Providers : VerifyWith(enc)

Next ==
    \/ ProveCall
    \/ UseHonest
    \/ AlterResponse
    \/ BadCommitment
    \/ BadProof
    \/ ChangeT
    \/ ChangeA
    \/ ChangeC1
    \/ ChangeC2
    \/ VerifyCall

Spec == Init /\ [][Next]_vars

\* The same caller on a provider whose serialization may fail.
NextSer ==
    \/ ProveCallSer
    \/ UseHonest
    \/ AlterResponse
    \/ BadCommitment
    \/ BadProof
    \/ ChangeT
    \/ ChangeA
    \/ ChangeC1
    \/ ChangeC2
    \/ VerifyCallSer

SpecSer == Init /\ [][NextSer]_vars

\* verify on arbitrary arguments, as any caller may supply them.
InitAny ==
    /\ vin \in [status : {"ok"}, commitment : Group, c1 : Group, c2 : Group,
                t : Group, a : Group, z : Scalars, g : Group, h : Group]
    /\ g = vin.g
    /\ h = vin.h
    /\ s = 0
    /\ stream = <<0, 0>>
    /\ pos = 0
    /\ pout = NoOutput
    /\ how = [kind |-> "any", x |-> 0]
    /\ vout = NoOutput
    /\ pc = "assembled"
    /\ calls = <<>>

SpecAny == InitAny /\ [][VerifyCall]_vars


\* A caller that makes several prove calls: the secret key x, the public key
\* h = g*x and a seeded randomness source, as the tests set them up.
InitRng ==
    /\ s \in Scalars
    /\ g = Generator
    /\ h = Mul(g, s)
    /\ stream \in [1 .. StreamLen -> Scalars]
    /\ pos = 0
    /\ pout = NoOutput
    /\ vin = NoInput
    /\ how = NotYet
    /\ vout = NoOutput
    /\ pc = "calling"
    /\ calls = <<>>

\* One prove call on a source in state `from`, recorded in calls.
ProveOn(from, kind) ==
    /\ pc = "calling"
    /\ Len(calls) < MaxCalls
    /\ from + 2 <= StreamLen
    /\ \E res \in {Prove(s, [g |-> g, h |-> h], [stream |-> stream, pos |-> from],
                         Conforming)} :
          /\ pout' = [x \in DOMAIN res \ {"rng"} |-> res[x]]
          /\ calls' = Append(calls, [kind |-> kind, before |-> from,
                                     r |-> res.r, k |-> res.k,
                                     after |-> res.rng.pos])
          /\ pos' = IF kind = "next" THEN res.rng.pos ELSE pos
    /\ UNCHANGED <<s, g, h, stream, vin, how, vout, pc>>

\* prove(s, params, &mut rng): the call continues on the caller's source.
ProveNext == ProveOn(pos, "next")

\* prove(s, params, test_rng()): a source in the state an earlier call began in.
ProveReplay ==
    \E i \in 1 .. Len(calls) :
        /\ calls[i].kind = "next"
        /\ ProveOn(calls[i].before, "replay")

NextRng ==
    \/ ProveNext
    \/ ProveReplay

SpecRng == InitRng /\ [][NextRng]_vars


-----------------------------------------------------------------------------
(* The claims. *)

Verified == pc = "verified" /\ vout.status = "ok"

\* A group equality of verify's, on the discrete logarithms.
SameElement(x, y) == (x - y) % Q = 0

\* C1: completeness. For every secret s, every pair of bases (g, h) and every
\* r and k the randomness source gives, verify returns true on the unmodified
\* output of prove(s, Params{g, h}, rng).
Completeness ==
    (pc = "verified" /\ how.kind = "honest") =>
        (vout.status = "ok" /\ vout.result = TRUE)

CompletenessWitness ==
    /\ Verified
    /\ how.kind = "honest"
    /\ vout.result = TRUE
    /\ s # 0 /\ g # Identity /\ h # Identity /\ h # g
    /\ pout.r # 0 /\ pout.k # 0 /\ pout.challenge # 0

\* C2: an accepted proof shows that commitment and ciphertext encode the same
\* secret. Whenever verify returns true, there are scalars s0 and r0 with
\* commitment = g*s0 + h*s0, c1 = g*r0 and c2 = h*(s0*r0). Stated for the
\* bases the claim is least demanding on: g, h and g + h are not the identity.
AcceptedEncodesOneSecret ==
    (/\ Verified
     /\ vout.result = TRUE
     /\ vin.g # Identity /\ vin.h # Identity /\ (vin.g + vin.h) % Q # 0) =>
        \E s0 \in Scalars, r0 \in Scalars :
            /\ vin.commitment = (vin.g * s0 + vin.h * s0) % Q
            /\ vin.c1 = (vin.g * r0) % Q
            /\ vin.c2 = (vin.h * s0 * r0) % Q

\* C3 as stated: for every secret x, with g a generator and h = g*x, verify
\* returns false once pok.z is replaced by pok.z + 1.
AlteredResponseRejected ==
    (Verified /\ how.kind = "altered_response" /\ g # Identity /\ h = (g * s) % Q) =>
        vout.result = FALSE

\* C3 as amended: with h = g*x, verify returns false on the altered response
\* exactly when g + h is not the identity, that is, when g is not the identity
\* and x is not -1; otherwise it still returns true.
AlteredResponseRejectedUnlessCancels ==
    (Verified /\ how.kind = "altered_response" /\ h = (g * s) % Q) =>
        (vout.result = FALSE <=> (g # Identity /\ s # Q - 1))

AlteredResponseWitness ==
    /\ Verified
    /\ how.kind = "altered_response"
    /\ h = (g * s) % Q
    /\ g # Identity /\ s # 0 /\ s # Q - 1
    /\ vin.z = (pout.z + 1) % Q
    /\ vout.result = FALSE

\* C4 as stated: for every secret s and every other secret s2, verify returns
\* false when prove's ciphertext and proof for s are paired with the
\* commitment g*s2 + h*s2. Stated for bases that are generators and for the
\* transcripts whose challenge is not zero, where the hash plays no part.
BadCommitmentRejected ==
    (/\ Verified
     /\ how.kind = "bad_commitment"
     /\ g # Identity /\ h # Identity /\ pout.challenge # 0) =>
        vout.result = FALSE

\* C4 as amended: verify returns false on the commitment of another secret
\* exactly when g + h is not the identity and the challenge derived from the
\* transcript is not zero; otherwise it returns true.
BadCommitmentRejectedUnlessDegenerate ==
    (Verified /\ how.kind = "bad_commitment") =>
        (vout.result = FALSE <=> ((g + h) % Q # 0 /\ pout.challenge # 0))

BadCommitmentWitness ==
    /\ Verified
    /\ how.kind = "bad_commitment"
    /\ how.x # s
    /\ vin.commitment = ((g + h) * how.x) % Q
    /\ (g + h) % Q # 0 /\ pout.challenge # 0
    /\ vout.result = FALSE

\* C5 as stated: for every secret s, bases (g, h) and nonce j, verify returns
\* false when prove's commitment and ciphertext are paired with
\* PoK{t = g*j, a = g*j, z = j}. Stated for bases that are generators, g the
\* wrong base for a (h # g) and g + h not the identity.
BadProofRejected ==
    (/\ Verified
     /\ how.kind = "bad_proof"
     /\ g # Identity /\ h # Identity /\ h # g /\ (g + h) % Q # 0) =>
        vout.result = FALSE

\* C5 as amended: on the substituted proof PoK{g*j, g*j, j} verify returns
\* true exactly when h*j - g*j = (g*s + h*s)*e, e being the challenge of
\* (g*j, g*j, c1, c2), and false otherwise; it returns true, for one, when
\* j = 0 and s = 0.
BadProofRejectedUnlessBalanced ==
    (Verified /\ how.kind = "bad_proof") =>
        LET j == how.x
            e == TranscriptChallenge((g * j) % Q, (g * j) % Q, pout.c1, pout.c2)
        IN vout.result = TRUE <=> SameElement(h * j - g * j, (g * s + h * s) * e)

BadProofWitness ==
    /\ Verified
    /\ how.kind = "bad_proof"
    /\ how.x # 0 /\ s # 0 /\ g # Identity /\ h # Identity /\ h # g
    /\ vin.t = (g * how.x) % Q /\ vin.a = vin.t /\ vin.z = how.x
    /\ vout.result = FALSE

\* C6 as stated: verify never fails. For every input, one whose group
\* elements cannot be serialized included, verify ends with a boolean.
VerifyNeverFails ==
    pc = "verified" => (vout.status = "ok" /\ vout.result \in BOOLEAN)

\* C6 as amended: verify ends with a boolean for every input whose four
\* encodings (t, a, c1, c2) succeed, and the boolean is false exactly when
\* the verification equation fails; when an encoding fails, verify panics
\* instead of returning false.
VerifyFailsOnlyOnEncoding ==
    pc = "verified" =>
        /\ vout.status = "panic" <=>
               ~({vin.t, vin.a, vin.c1, vin.c2} \subseteq vout.enc)
        /\ vout.status = "ok" =>
               /\ vout.result \in BOOLEAN
               /\ vout.result = FALSE <=>
                      ~SameElement(vin.g * vin.z + vin.h * vin.z,
                                   vin.t + vin.a + vin.commitment * vout.challenge)

VerifyPanicWitness ==
    /\ pc = "verified"
    /\ vout.status = "panic"
    /\ vin.c2 \notin vout.enc
    /\ {vin.t, vin.a, vin.c1} \subseteq vout.enc

ChangedOne == {"changed_t", "changed_a", "changed_c1", "changed_c2"}

\* C7 as stated: transcript binding. After exactly one of t, a, c1, c2 of an
\* accepted output of prove is changed to another group element, the challenge
\* verify derives is changed and verify no longer returns true. Stated for
\* bases with g, h and g + h not the identity, and for the changes that do
\* change the challenge: there verify no longer returns true.
TranscriptBinding ==
    (/\ Verified
     /\ how.kind \in ChangedOne
     /\ g # Identity /\ h # Identity /\ (g + h) % Q # 0
     /\ vout.challenge # pout.challenge) =>
        vout.result = FALSE

\* C7 as amended: after exactly one of t, a, c1, c2 is changed, verify derives
\* its challenge e2 from the changed encodings and returns true exactly when
\* (t2 + a2) - (t + a) = commitment*(e - e2), the 2 marking the values verify
\* is given. So a changed c1 or c2 is rejected when the challenge differs and
\* the commitment is not the identity, and a changed t or a is rejected when
\* the challenge is the same.
TranscriptBindingUpToChallenge ==
    (Verified /\ how.kind \in ChangedOne) =>
        /\ vout.challenge = TranscriptChallenge(vin.t, vin.a, vin.c1, vin.c2)
        /\ vout.result = TRUE <=>
               SameElement((vin.t + vin.a) - (pout.t + pout.a),
                           pout.c * (pout.challenge - vout.challenge))
        /\ (/\ how.kind \in {"changed_c1", "changed_c2"}
            /\ vout.challenge # pout.challenge
            /\ pout.c # Identity) => vout.result = FALSE
        /\ (/\ how.kind \in {"changed_t", "changed_a"}
            /\ vout.challenge = pout.challenge) => vout.result = FALSE

TranscriptBindingWitness ==
    /\ Verified
    /\ how.kind = "changed_c1"
    /\ vin.c1 # pout.c1
    /\ vout.challenge # pout.challenge
    /\ pout.c # Identity
    /\ vout.result = FALSE

\* C8: the acceptance criterion. For every input, verify returns true if and
\* only if g*z + h*z equals t + a + commitment*e in the group, e being the
\* challenge of the encodings of t, a, c1, c2 absorbed in that order; the
\* commitment, the params and z do not enter the challenge.
AcceptanceCriterion ==
    pc = "verified" =>
        /\ vout.status = "ok"
        /\ vout.challenge = TranscriptChallenge(vin.t, vin.a, vin.c1, vin.c2)
        /\ vout.result = TRUE <=>
               SameElement(vin.g * vin.z + vin.h * vin.z,
                           vin.t + vin.a + vin.commitment *
                               TranscriptChallenge(vin.t, vin.a, vin.c1, vin.c2))

AcceptanceWitness ==
    /\ Verified
    /\ how.kind = "any"
    /\ vout.result = TRUE
    /\ vin.commitment # Identity /\ vin.z # 0 /\ vout.challenge # 0
    /\ vin.t # vin.a /\ vin.g # vin.h /\ vin.g # Identity /\ vin.h # Identity

\* C9: the shape of prove's outputs. For every s, (g, h) and drawn r and k,
\* prove returns commitment = g*s + h*s, c1 = g*r, c2 = h*(s*r), t = g*k,
\* a = h*k and z = k + e*s, e being the challenge of the encodings of
\* t, a, c1, c2 in that order.
ProveOutputShape ==
    pc \in {"proved", "assembled", "verified"} =>
        LET r == stream[1]
            k == stream[2]
            e == TranscriptChallenge((g * k) % Q, (h * k) % Q,
                                     (g * r) % Q, (h * s * r) % Q)
        IN /\ pout.status = "ok"
           /\ pout.r = r
           /\ pout.k = k
           /\ pout.c = (g * s + h * s) % Q
           /\ pout.c1 = (g * r) % Q
           /\ pout.c2 = (h * s * r) % Q
           /\ pout.t = (g * k) % Q
           /\ pout.a = (h * k) % Q
           /\ pout.challenge = e
           /\ pout.z = (k + e * s) % Q

ProveOutputWitness ==
    /\ pc = "proved"
    /\ pout.status = "ok"
    /\ s = 2 /\ g = 1 /\ h = 3 /\ pout.r = 4 /\ pout.k = 3
    /\ pout.c = 3 /\ pout.c1 = 4 /\ pout.c2 = 4 /\ pout.t = 3 /\ pout.a = 4
    /\ pout.z = (3 + pout.challenge * 2) % Q

\* C10: randomness consumption. Each prove call takes exactly two draws from
\* its source, r first and k second; calls that continue on the same source
\* take draws no earlier call took; a call on a source in the state an earlier
\* call began in gives that call's r and k again.
RandomnessConsumption ==
    /\ \A i \in 1 .. Len(calls) :
           /\ calls[i].after = calls[i].before + 2
           /\ calls[i].r = stream[calls[i].before + 1]
           /\ calls[i].k = stream[calls[i].before + 2]
    /\ \A i \in 1 .. Len(calls), n \in 1 .. Len(calls) :
           (i < n /\ calls[i].kind = "next" /\ calls[n].kind = "next") =>
               ((calls[i].before + 1) .. calls[i].after) \cap
               ((calls[n].before + 1) .. calls[n].after) = {}
    /\ \A i \in 1 .. Len(calls), n \in 1 .. Len(calls) :
           calls[i].before = calls[n].before =>
               (calls[i].r = calls[n].r /\ calls[i].k = calls[n].k)
    /\ \A i \in 1 .. Len(calls) :
           (calls[i].kind = "next" /\
            \A n \in (i + 1) .. Len(calls) : calls[n].kind # "next") =>
               pos = calls[i].after

RandomnessWitness ==
    /\ Len(calls) = 3
    /\ calls[1].kind = "next" /\ calls[2].kind = "next" /\ calls[3].kind = "replay"
    /\ calls[1].before = 0 /\ calls[2].before = 2 /\ calls[3].before = 0
    /\ calls[1].r # calls[1].k
    /\ calls[2].r # calls[1].r /\ calls[2].k # calls[1].k
    /\ calls[3].r = calls[1].r /\ calls[3].k = calls[1].k
    /\ pos = 4

====
